---- MODULE Spec2Model ----
(***************************************************************************)
(* Dementia Risk Calculator: the two page variants of the repository.      *)
(*   "num" : src/src/app/page.tsx   (initialRisk and age are numbers)      *)
(*   "str" : src/unnamed/part_001   (initialRisk and age are strings)      *)
(*                                                                         *)
(* Texts are sequences of one-character strings.  A JavaScript number is   *)
(* a record [nan, v]: v counts tenths (Scale = 10), or units for the       *)
(* result of parseInt.  The arithmetic of calculateRisk is done on         *)
(* extended rationals (a finite n/d in lowest terms with d > 0, NaN,       *)
(* Infinity, -Infinity), as IEEE division produces them.                   *)
(***************************************************************************)
EXTENDS Integers, Sequences, FiniteSets, TLC

VARIABLES variant, riskField, ageField, initialRisk, age, selectedTest, result, call

vars == <<variant, riskField, ageField, initialRisk, age, selectedTest, result, call>>

\* ------------------------------------------------------------------ bounds
MinAge == 50
MaxAge == 90

\* one fractional digit is kept (the probability input's step is 0.1)
Scale == 10

\* ------------------------------------------------------------------ texts
Digits == <<"0", "1", "2", "3", "4", "5", "6", "7", "8", "9">>

IsDigit(c) == \E i \in 1..10 : Digits[i] = c

DigitVal(c) == (CHOOSE i \in 1..10 : Digits[i] = c) - 1

Abs(x) == IF x < 0 THEN -x ELSE x

NaN == [nan |-> TRUE, v |-> 0]

Num(x) == [nan |-> FALSE, v |-> x]

\* the length of the run of digits of t that starts at position i
RECURSIVE DigitRun(_, _)
DigitRun(t, i) ==
  IF i <= Len(t) /\ IsDigit(t[i]) THEN 1 + DigitRun(t, i + 1) ELSE 0

\* the value of the digits t[i .. i+n-1]
RECURSIVE DigitsValue(_, _, _)
DigitsValue(t, i, n) ==
  IF n = 0 THEN 0
  ELSE 10 * DigitsValue(t, i, n - 1) + DigitVal(t[i + n - 1])

\* the decimal digits of a natural number
RECURSIVE NatToText(_)
NatToText(n) ==
  IF n < 10 THEN <<Digits[n + 1]>>
  ELSE NatToText(n \div 10) \o <<Digits[(n % 10) + 1]>>

IntToText(n) == IF n < 0 THEN <<"-">> \o NatToText(-n) ELSE NatToText(n)

\* Number.prototype.toString of a number of tenths
NumberToString(x) ==
  IF x.nan THEN <<"N", "a", "N">>
  ELSE LET a == Abs(x.v)
            whole == NatToText(a \div Scale)
            frac == IF a % Scale = 0 THEN <<>> ELSE <<".">> \o NatToText(a % Scale)
        IN  (IF x.v < 0 THEN <<"-">> ELSE <<>>) \o whole \o frac

\* the longest prefix of t that is a decimal literal: [ok, v, len], v in tenths
DecimalPrefix(t) ==
  LET from(neg, s) ==
        LET digits(ni) ==
              LET fraction(dot, nf) ==
                    LET value(useFrac, mag) ==
                          [ok |-> ni > 0 \/ nf > 0,
                           v |-> IF neg THEN -mag ELSE mag,
                           len |-> (s - 1) + ni + (IF useFrac THEN 1 + nf ELSE 0)]
                    IN  value(dot /\ (ni > 0 \/ nf > 0),
                              DigitsValue(t, s, ni) * Scale
                                + (IF dot /\ nf > 0 THEN DigitVal(t[s + ni + 1]) ELSE 0))
              IN  IF s + ni <= Len(t) /\ t[s + ni] = "."
                  THEN fraction(TRUE, DigitRun(t, s + ni + 1))
                  ELSE fraction(FALSE, 0)
        IN  digits(DigitRun(t, s))
  IN  IF Len(t) >= 1 /\ t[1] = "-" THEN from(TRUE, 2) ELSE from(FALSE, 1)

\* parseFloat(text): the value of the longest numeric prefix, NaN without one
parseFloat(t) ==
  LET value(p) == IF p.ok THEN Num(p.v) ELSE NaN
  IN  value(DecimalPrefix(t))

\* parseInt(text): optional sign and the leading digits, NaN without a digit
parseInt(t) ==
  LET from(neg, s) ==
        LET digits(ni, mag) ==
              IF ni = 0 THEN NaN ELSE Num(IF neg THEN -mag ELSE mag)
        IN  digits(DigitRun(t, s), DigitsValue(t, s, DigitRun(t, s)))
  IN  IF Len(t) >= 1 /\ t[1] = "-" THEN from(TRUE, 2) ELSE from(FALSE, 1)

\* Number(text): 0 for the empty string, the value of a text that is wholly a
\* literal, NaN otherwise
ToNumber(t) ==
  LET value(p) == IF p.ok /\ p.len = Len(t) THEN Num(p.v) ELSE NaN
  IN  IF t = <<>> THEN Num(0) ELSE value(DecimalPrefix(t))

\* e.target.value of an <input type="number">: the text when it is a valid
\* floating-point number, the empty string otherwise
InputValue(t) ==
  LET value(p) == IF p.ok /\ p.len = Len(t) /\ t[Len(t)] # "." THEN t ELSE <<>>
  IN  value(DecimalPrefix(t))

\* ------------------------------------------------------------------ numbers
RECURSIVE GCD(_, _)
GCD(a, b) == IF b = 0 THEN a ELSE GCD(b, a % b)

\* the finite rational n/d in lowest terms with a positive denominator (d # 0)
Fin(n, d) ==
  LET reduced(g, s) == [k |-> "fin", n |-> s * (n \div g), d |-> s * (d \div g)]
  IN  reduced(GCD(Abs(n), Abs(d)), IF d < 0 THEN -1 ELSE 1)

ExtNaN == [k |-> "nan", n |-> 0, d |-> 1]
PosInf == [k |-> "inf", n |-> 1, d |-> 1]
NegInf == [k |-> "ninf", n |-> -1, d |-> 1]

IsInfinite(x) == x.k \in {"inf", "ninf"}

\* -1, 0 or 1; every zero of the computation is +0
Sign(x) == IF x.n < 0 THEN -1 ELSE IF x.n > 0 THEN 1 ELSE 0

Signed(s) == IF s < 0 THEN NegInf ELSE PosInf

\* x + y
ExtAdd(x, y) ==
  IF x.k = "nan" \/ y.k = "nan" THEN ExtNaN
  ELSE IF IsInfinite(x) /\ IsInfinite(y) THEN (IF x.k = y.k THEN x ELSE ExtNaN)
  ELSE IF IsInfinite(x) THEN x
  ELSE IF IsInfinite(y) THEN y
  ELSE Fin(x.n * y.d + y.n * x.d, x.d * y.d)

ExtNeg(x) ==
  IF x.k = "nan" THEN ExtNaN
  ELSE IF x.k = "inf" THEN NegInf
  ELSE IF x.k = "ninf" THEN PosInf
  ELSE Fin(-x.n, x.d)

ExtSub(x, y) == ExtAdd(x, ExtNeg(y))

\* x * y
ExtMul(x, y) ==
  IF x.k = "nan" \/ y.k = "nan" THEN ExtNaN
  ELSE IF IsInfinite(x) \/ IsInfinite(y)
       THEN (IF Sign(x) = 0 \/ Sign(y) = 0 THEN ExtNaN ELSE Signed(Sign(x) * Sign(y)))
  ELSE Fin(x.n * y.n, x.d * y.d)

\* x / y, with IEEE results for a zero or infinite divisor
ExtDiv(x, y) ==
  IF x.k = "nan" \/ y.k = "nan" THEN ExtNaN
  ELSE IF IsInfinite(x) /\ IsInfinite(y) THEN ExtNaN
  ELSE IF IsInfinite(x) THEN (IF Sign(y) < 0 THEN ExtNeg(x) ELSE x)
  ELSE IF IsInfinite(y) THEN Fin(0, 1)
  ELSE IF y.n = 0 THEN (IF x.n = 0 THEN ExtNaN ELSE Signed(Sign(x)))
  ELSE Fin(x.n * y.d, x.d * y.n)

\* Math.abs
ExtAbs(x) ==
  IF x.k = "nan" THEN ExtNaN
  ELSE IF IsInfinite(x) THEN PosInf
  ELSE Fin(Abs(x.n), x.d)

\* x > y; false when either is NaN
ExtGT(x, y) ==
  IF x.k = "nan" \/ y.k = "nan" THEN FALSE
  ELSE IF x.k = "inf" THEN y.k # "inf"
  ELSE IF x.k = "ninf" THEN FALSE
  ELSE IF y.k = "inf" THEN FALSE
  ELSE IF y.k = "ninf" THEN TRUE
  ELSE x.n * y.d > y.n * x.d

\* x < y
ExtLT(x, y) == ExtGT(y, x)

MathMin(x, y) == IF ExtGT(y, x) THEN x ELSE y

\* Math.max of two finite numbers
MathMax(x, y) == IF ExtGT(y, x) THEN y ELSE x

One == Fin(1, 1)
Hundred == Fin(100, 1)

TenthsOfTruncated(n, d) == (n \div d) * 10 + ((n % d) * 10) \div d

\* round(|n/d| * 10) with ties away from zero, by long division
TenthsOf(n, d) ==
  LET rounded(q, t, r1) == (q * 10 + t) + (IF 2 * r1 >= d THEN 1 ELSE 0)
  IN  rounded(n \div d, ((n % d) * 10) \div d, ((n % d) * 10) % d)

\* Number.prototype.toFixed(1): [k, t], t the signed count of tenths shown
toFixed1(x) ==
  IF x.k # "fin" THEN [k |-> x.k, t |-> 0]
  ELSE [k |-> "fin", t |-> Sign(x) * TenthsOf(Abs(x.n), x.d)]

\* ------------------------------------------------------------------ catalog
BLOOD_TESTS ==
  << [name |-> "Neurofilament Light (NfL)",
      positiveLR |-> Fin(25, 10), negativeLR |-> Fin(5, 10), threshold |-> 20],
     [name |-> "Glial Fibrillary Acidic Protein (GFAP)",
      positiveLR |-> Fin(5, 1), negativeLR |-> Fin(1, 10), threshold |-> 15],
     [name |-> "Phosphorylated Tau 217 (pTau 217)",
      positiveLR |-> Fin(93, 10), negativeLR |-> Fin(46, 100), threshold |-> 10],
     [name |-> "Amyloid PET Scan",
      positiveLR |-> Fin(12, 1), negativeLR |-> Fin(2, 10), threshold |-> 5] >>

TestNames == {BLOOD_TESTS[i].name : i \in 1..Len(BLOOD_TESTS)}

NoTest == [name |-> "", positiveLR |-> One, negativeLR |-> One, threshold |-> 0]

FindTestOrFirst(name) ==
  LET hits == {i \in 1..Len(BLOOD_TESTS) : BLOOD_TESTS[i].name = name}
  IN  [found |-> TRUE,
       test |-> IF hits = {} THEN BLOOD_TESTS[1]
                ELSE BLOOD_TESTS[CHOOSE i \in hits : \A j \in hits : i <= j]]

\* BLOOD_TESTS.find(t => t.name === selectedTest): the first match, or found = FALSE
FindTest(name) ==
  LET hits == {i \in 1..Len(BLOOD_TESTS) : BLOOD_TESTS[i].name = name}
  IN  IF hits = {} THEN [found |-> FALSE, test |-> NoTest]
      ELSE [found |-> TRUE,
            test |-> BLOOD_TESTS[CHOOSE i \in hits : \A j \in hits : i <= j]]

\* ------------------------------------------------------------------ functions
getBaselineRiskOffByOne(a) ==
  IF a <= 60 THEN 3
  ELSE IF a >= 60 /\ a <= 65 THEN 10
  ELSE IF a >= 66 /\ a <= 70 THEN 15
  ELSE IF a >= 71 /\ a <= 75 THEN 25
  ELSE IF a >= 76 /\ a <= 80 THEN 35
  ELSE IF a >= 81 /\ a <= 85 THEN 50
  ELSE 65

getBaselineRisk(a) ==
  IF a < 60 THEN 3
  ELSE IF a >= 60 /\ a <= 65 THEN 10
  ELSE IF a >= 66 /\ a <= 70 THEN 15
  ELSE IF a >= 71 /\ a <= 75 THEN 25
  ELSE IF a >= 76 /\ a <= 80 THEN 35
  ELSE IF a >= 81 /\ a <= 85 THEN 50
  ELSE 65

calculatePostTestProbability(preTestProb, likelihoodRatio) ==
  LET fromOdds(postTestOdds) == ExtDiv(postTestOdds, ExtAdd(One, postTestOdds))
      preTestOdds == ExtDiv(preTestProb, ExtSub(One, preTestProb))
  IN  fromOdds(ExtMul(preTestOdds, likelihoodRatio))

\* (value * 100).toFixed(1)
formatPercentage(value) == toFixed1(ExtMul(value, Hundred))

\* the decision `probabilityGap > 0.3`
GapThreshold == Fin(3, 10)

IsLargeGapQuarter(probabilityGap) == ExtGT(probabilityGap, Fin(1, 4))

IsLargeGap(probabilityGap) == ExtGT(probabilityGap, GapThreshold)

BelowOrAtThreshold(adjustedRisk, test) ==
  ~ExtGT(ExtMul(adjustedRisk, Hundred), Fin(test.threshold, 1))

\* the short-circuit test `adjustedRisk * 100 < test.threshold`
BelowThreshold(adjustedRisk, test) ==
  ExtLT(ExtMul(adjustedRisk, Hundred), Fin(test.threshold, 1))

\* ------------------------------------------------------------------ results
RECOMMENDED == "[RECOMMENDED] "
NOT_RECOMMENDED == "[NOT RECOMMENDED] "

\* a recommendation string is a prefix, empty for the messages, and a body
Message(text) == [prefix |-> "", body |-> text]

Labelled(prefix, name) == [prefix |-> prefix, body |-> name]

\* one line of details
FigureLine(label, f) == [label |-> label, k |-> f.k, t |-> f.t, u |-> 0, s |-> ""]
IntLine(label, n) == [label |-> label, k |-> "int", t |-> n, u |-> 0, s |-> ""]
RatioLine(label, r) == [label |-> label, k |-> "ratio", t |-> r.n, u |-> r.d, s |-> ""]
TextLine(label, text) == [label |-> label, k |-> "text", t |-> 0, u |-> 0, s |-> text]

NullResult == [isNull |-> TRUE, recommendation |-> Message(""), details |-> <<>>]

Result(recommendation, details) ==
  [isNull |-> FALSE, recommendation |-> recommendation, details |-> details]

\* the locals of the last run of calculateRisk
NoCall ==
  [path |-> "none", riskField |-> <<>>, ageField |-> <<>>, selectedTest |-> "",
   risk |-> ExtNaN, patientAge |-> NaN, baselineRisk |-> ExtNaN,
   adjustedRisk |-> ExtNaN, test |-> NoTest, preTestProb |-> ExtNaN,
   positiveProb |-> ExtNaN, negativeProb |-> ExtNaN, probabilityGap |-> ExtNaN]

\* ------------------------------------------------------------------ calculateRisk
\* the lines shared by the two shapes of details
CommonLines(patientAge, baselineRisk, risk, adjustedRisk, test) ==
  << IntLine("Patient Age", patientAge),
     FigureLine("Baseline Risk", formatPercentage(baselineRisk)),
     FigureLine("Doctor's Estimated Probability", formatPercentage(risk)),
     FigureLine("Adjusted Pre-Test Probability", formatPercentage(adjustedRisk)),
     TextLine("Selected Test", test.name),
     IntLine("Test Threshold", test.threshold) >>

\* the locals of a run that ended at `path`
Locals(path, sel, risk, patientAge, baselineRisk, adjustedRisk, test) ==
  [NoCall EXCEPT !.path = path, !.selectedTest = sel, !.risk = risk,
                 !.patientAge = patientAge, !.baselineRisk = baselineRisk,
                 !.adjustedRisk = adjustedRisk, !.test = test]

\* calculateRisk on the two texts it parses and the selected test:
\* the result it sets and the locals of the run
calculateRisk(riskText, ageText, sel) ==
  LET parsed(risk, patientAge) ==
        LET adjust(baselineRisk) ==
              LET lookup(adjustedRisk, found) ==
                    LET decide(test, common) ==
                          LET report(positiveProb, negativeProb) ==
                                LET verdict(probabilityGap) ==
                                      [result |->
                                         Result(Labelled(IF IsLargeGap(probabilityGap)
                                                         THEN RECOMMENDED
                                                         ELSE NOT_RECOMMENDED,
                                                         test.name),
                                                common \o
                                                << RatioLine("LR+", test.positiveLR),
                                                   RatioLine("LR-", test.negativeLR),
                                                   FigureLine("If Positive",
                                                     formatPercentage(positiveProb)),
                                                   FigureLine("If Negative",
                                                     formatPercentage(negativeProb)),
                                                   FigureLine("Probability Gap",
                                                     formatPercentage(probabilityGap)) >>),
                                       call |->
                                         [Locals("post", sel, risk, patientAge,
                                                 baselineRisk, adjustedRisk, test)
                                          EXCEPT !.preTestProb = adjustedRisk,
                                                 !.positiveProb = positiveProb,
                                                 !.negativeProb = negativeProb,
                                                 !.probabilityGap = probabilityGap]]
                                IN  verdict(ExtAbs(ExtSub(positiveProb, negativeProb)))
                          IN  IF BelowThreshold(adjustedRisk, test)
                              THEN [result |->
                                      Result(Labelled(NOT_RECOMMENDED, test.name),
                                             common \o
                                             << FigureLine(
                                                  "Pre-test probability is below the threshold",
                                                  formatPercentage(adjustedRisk)) >>),
                                    call |-> Locals("below", sel, risk, patientAge,
                                                    baselineRisk, adjustedRisk, test)]
                              ELSE report(
                                     calculatePostTestProbability(adjustedRisk,
                                                                  test.positiveLR),
                                     calculatePostTestProbability(adjustedRisk,
                                                                  test.negativeLR))
                    IN  IF ~found.found
                        THEN [result |->
                                Result(Message("Error: Selected test not found."), <<>>),
                              call |-> Locals("notfound", sel, risk, patientAge,
                                              baselineRisk, adjustedRisk, NoTest)]
                        ELSE decide(found.test,
                                    CommonLines(patientAge.v, baselineRisk, risk,
                                                adjustedRisk, found.test))
              IN  lookup(MathMax(risk, baselineRisk), FindTest(sel))
        IN  IF risk.k = "nan" \/ patientAge.nan
            THEN [result |->
                    Result(Message("Please enter valid numbers for both fields."), <<>>),
                  call |-> Locals("invalid", sel, risk, patientAge, ExtNaN, ExtNaN, NoTest)]
            ELSE IF sel = ""
            THEN [result |->
                    Result(Message("Please select a dementia test to proceed."), <<>>),
                  call |-> Locals("notest", sel, risk, patientAge, ExtNaN, ExtNaN, NoTest)]
            ELSE adjust(Fin(getBaselineRisk(patientAge.v), 100))
      toRisk(parsedRisk) ==
        IF parsedRisk.nan THEN ExtNaN ELSE Fin(parsedRisk.v, Scale * 100)
  IN  parsed(toRisk(parseFloat(riskText)), parseInt(ageText))

\* ------------------------------------------------------------------ inputs
\* what the user may leave in the probability field
RiskTexts ==
  { <<>>, <<"-">>, <<"0">>, <<"4", ".", "9">>, <<"5">>, <<"2", "0">>, <<"5", "0">>,
    <<"1", "0", "0">>, <<"1", "5", "0">>, <<"2", "0", "0">>, <<"-", "5">> }

\* what the user may leave in the age field
AgeTexts ==
  {IntToText(a) : a \in MinAge..MaxAge} \cup
  { <<>>, <<"-">>, <<"-", "3">>, <<"7", "0", ".", "9">> }

\* the values of the select's options
OptionValues == {""} \cup TestNames

\* a name that is in no option, for the defensive branch of calculateRisk
UnlistedTest == "Unlisted test"

\* the texts typed in the runs of the whole page
PageRiskTexts == { <<>>, <<"-">>, <<"0">>, <<"5", "0">>, <<"1", "0", "0">> }
PageAgeTexts == { <<>>, <<"5", "9">>, <<"7", "0">>, <<"8", "6">> }

\* ------------------------------------------------------------------ page
\* useState initial values; a number input shows the number it is given
Init ==
  /\ variant \in {"num", "str"}
  /\ initialRisk = (IF variant = "num" THEN Num(0) ELSE <<>>)
  /\ age = (IF variant = "num" THEN Num(0) ELSE <<>>)
  /\ riskField = (IF variant = "num" THEN NumberToString(Num(0)) ELSE <<>>)
  /\ ageField = (IF variant = "num" THEN NumberToString(Num(0)) ELSE <<>>)
  /\ selectedTest = ""
  /\ result = NullResult
  /\ call = NoCall

\* onChange={(e) => setInitialRisk(Number(e.target.value))}
ChangeInitialRiskNum(text) ==
  /\ variant = "num"
  /\ riskField' = text
  /\ initialRisk' = ToNumber(InputValue(text))
  /\ UNCHANGED <<variant, ageField, age, selectedTest, result, call>>

\* onChange={(e) => setInitialRisk(e.target.value)}
ChangeInitialRiskStr(text) ==
  /\ variant = "str"
  /\ riskField' = text
  /\ initialRisk' = InputValue(text)
  /\ UNCHANGED <<variant, ageField, age, selectedTest, result, call>>

\* onChange={(e) => setAge(Number(e.target.value))}
ChangeAgeNum(text) ==
  /\ variant = "num"
  /\ ageField' = text
  /\ age' = ToNumber(InputValue(text))
  /\ UNCHANGED <<variant, riskField, initialRisk, selectedTest, result, call>>

\* onChange={(e) => setAge(e.target.value)}
ChangeAgeStr(text) ==
  /\ variant = "str"
  /\ ageField' = text
  /\ age' = InputValue(text)
  /\ UNCHANGED <<variant, riskField, initialRisk, selectedTest, result, call>>

\* onChange={(e) => setSelectedTest(e.target.value)}
ChangeSelectedTest(name) ==
  /\ selectedTest' = name
  /\ UNCHANGED <<variant, riskField, ageField, initialRisk, age, result, call>>

\* setResult(...) at the end of a run; the fields as they were at the press
SetOutcome(out) ==
  /\ result' = out.result
  /\ call' = [out.call EXCEPT !.riskField = riskField, !.ageField = ageField]

\* onClick={calculateRisk}, page.tsx: the numbers are turned to strings and parsed
CalculateNum ==
  /\ variant = "num"
  /\ SetOutcome(calculateRisk(NumberToString(initialRisk), NumberToString(age),
                              selectedTest))
  /\ UNCHANGED <<variant, riskField, ageField, initialRisk, age, selectedTest>>

\* onClick={calculateRisk}, the string variant: the strings are parsed
CalculateStr ==
  /\ variant = "str"
  /\ SetOutcome(calculateRisk(initialRisk, age, selectedTest))
  /\ UNCHANGED <<variant, riskField, ageField, initialRisk, age, selectedTest>>

Next ==
  \/ \E text \in PageRiskTexts : ChangeInitialRiskNum(text)
  \/ \E text \in PageRiskTexts : ChangeInitialRiskStr(text)
  \/ \E text \in PageAgeTexts : ChangeAgeNum(text)
  \/ \E text \in PageAgeTexts : ChangeAgeStr(text)
  \/ \E name \in OptionValues : ChangeSelectedTest(name)
  \/ CalculateNum
  \/ CalculateStr

Spec == Init /\ [][Next]_vars

\* calculateRisk as a function: every state of the fields, one press
InitCalc ==
  /\ variant \in {"num", "str"}
  /\ riskField \in RiskTexts
  /\ ageField \in AgeTexts
  /\ initialRisk = (IF variant = "num" THEN ToNumber(InputValue(riskField))
                    ELSE InputValue(riskField))
  /\ age = (IF variant = "num" THEN ToNumber(InputValue(ageField))
            ELSE InputValue(ageField))
  /\ selectedTest \in OptionValues \cup {UnlistedTest}
  /\ result = NullResult
  /\ call = NoCall

NextCalc == CalculateNum \/ CalculateStr

SpecCalc == InitCalc /\ [][NextCalc]_vars

\* ------------------------------------------------------------------ rendering
\* <RecommendationText isRecommended=... />, page.tsx
RecommendationTextNum(isRecommended) ==
  [subject |-> "This test",
   verdict |-> IF isRecommended THEN "is recommended for diagnosis"
               ELSE "is not strongly recommended"]

\* <RecommendationText testName=... isRecommended=... />, the string variant
RecommendationTextStr(testName, isRecommended) ==
  [subject |-> testName,
   verdict |-> IF isRecommended
               THEN "is recommended as it could significantly impact the diagnosis"
               ELSE "could provide additional information but is not strongly recommended"]

\* result.recommendation.startsWith('[RECOMMENDED]')
StartsWithRecommended(recommendation) == recommendation.prefix = RECOMMENDED

NoSentence == [subject |-> "", verdict |-> ""]

\* {result && ( ... )}: what the page shows
Rendered ==
  [shown |-> ~result.isNull,
   recommendation |-> result.recommendation,
   sentence |-> IF result.isNull THEN NoSentence
                ELSE IF variant = "num"
                THEN RecommendationTextNum(StartsWithRecommended(result.recommendation))
                ELSE RecommendationTextStr(selectedTest,
                                           StartsWithRecommended(result.recommendation)),
   details |-> result.details]

\* ------------------------------------------------------------------ properties
ErrorPaths == {"invalid", "notest", "notfound"}
VerdictPaths == {"below", "post"}
Labels == {RECOMMENDED, NOT_RECOMMENDED}

PTau217 == "Phosphorylated Tau 217 (pTau 217)"
AmyloidPET == "Amyloid PET Scan"
NfL == "Neurofilament Light (NfL)"

HasLine(details, label) == \E i \in 1..Len(details) : details[i].label = label

LineOf(details, label) ==
  details[CHOOSE i \in 1..Len(details) : details[i].label = label]

PostLabels == {"If Positive", "If Negative", "Probability Gap"}

\* the number a figure line shows
FigureValue(line) ==
  IF line.k = "fin" THEN Fin(line.t, 10)
  ELSE IF line.k = "inf" THEN PosInf
  ELSE IF line.k = "ninf" THEN NegInf
  ELSE ExtNaN

\* C1: when the post-test computation runs, the label is [RECOMMENDED] exactly
\* when the two post-test probabilities of the adjusted pre-test probability
\* (one with positiveLR, one with negativeLR) differ by more than 30 percentage
\* points, [NOT RECOMMENDED] otherwise; 50%, age 70, pTau 217 is [RECOMMENDED];
\* a gap of exactly 30 points does not pass the decision.
C1_RecommendedIffGapOver30 ==
  /\ ~IsLargeGap(Fin(30, 100))
  /\ call.path = "post" =>
    LET pos == calculatePostTestProbability(call.adjustedRisk, call.test.positiveLR)
        neg == calculatePostTestProbability(call.adjustedRisk, call.test.negativeLR)
        points == ExtMul(ExtAbs(ExtSub(pos, neg)), Hundred)
    IN  /\ result.recommendation.body = call.test.name
        /\ result.recommendation.prefix =
             (IF ExtGT(points, Fin(30, 1)) THEN RECOMMENDED ELSE NOT_RECOMMENDED)
        /\ (/\ call.riskField = <<"5", "0">>
            /\ call.ageField = <<"7", "0">>
            /\ call.selectedTest = PTau217)
           => result.recommendation.prefix = RECOMMENDED

\* 20%, age below 71, NfL: the gap is 27.4 points and the test is not recommended
C1_Witness ==
  /\ call.path = "post"
  /\ call.riskField = <<"2", "0">>
  /\ call.test.name = NfL
  /\ call.adjustedRisk = Fin(20, 100)
  /\ result.recommendation.prefix = NOT_RECOMMENDED

\* C2: for a validated input, an adjusted probability strictly below the
\* threshold gives [NOT RECOMMENDED] with no post-test figure and no run of
\* calculatePostTestProbability; at or above the threshold (5%, age below 60,
\* Amyloid PET Scan: exactly at it) the post-test computation runs.
C2_ShortCircuitStrictlyBelow ==
  call.path \in VerdictPaths =>
    IF call.adjustedRisk.n * 100 < call.test.threshold * call.adjustedRisk.d
    THEN /\ call.path = "below"
         /\ result.recommendation = Labelled(NOT_RECOMMENDED, call.test.name)
         /\ \A l \in PostLabels : ~HasLine(result.details, l)
         /\ call.preTestProb = ExtNaN
    ELSE /\ call.path = "post"
         /\ \A l \in PostLabels : HasLine(result.details, l)
         /\ call.preTestProb = call.adjustedRisk

C2_Witness ==
  /\ call.path = "post"
  /\ call.riskField = <<"5">>
  /\ call.patientAge.v < 60
  /\ call.test.name = AmyloidPET
  /\ call.adjustedRisk = Fin(call.test.threshold, 100)

\* C3: the validation checks come in a fixed order: unparseable probability or
\* age gives the invalid-numbers message whatever the test; otherwise an empty
\* selection gives the select-a-test message; otherwise a name outside the
\* catalog gives the not-found message; the details are empty in all three.
C3_ValidationPrecedence ==
  call.path # "none" =>
    IF call.risk.k = "nan" \/ call.patientAge.nan
    THEN result = Result(Message("Please enter valid numbers for both fields."), <<>>)
    ELSE IF call.selectedTest = ""
    THEN result = Result(Message("Please select a dementia test to proceed."), <<>>)
    ELSE IF call.selectedTest \notin
              { "Neurofilament Light (NfL)", "Glial Fibrillary Acidic Protein (GFAP)",
                "Phosphorylated Tau 217 (pTau 217)", "Amyloid PET Scan" }
    THEN result = Result(Message("Error: Selected test not found."), <<>>)
    ELSE result.recommendation.prefix \in Labels

C3_Witness ==
  /\ call.path = "notfound"
  /\ call.selectedTest = UnlistedTest
  /\ ~call.patientAge.nan
  /\ result.details = <<>>

\* C4: when the probability field holds a non-numeric entry (the empty string
\* in particular) at the press of Calculate, the result is the invalid-numbers
\* error, in both variants.
C4_NonNumericFieldIsInvalidInput ==
  (call.path # "none" /\ InputValue(call.riskField) = <<>>) =>
    /\ call.path = "invalid"
    /\ result.recommendation = Message("Please enter valid numbers for both fields.")

\* C5: the baseline of the parsed age is 3 below 60 (negative ages too), 10 for
\* 60-65, 15 for 66-70, 25 for 71-75, 35 for 76-80, 50 for 81-85, 65 above 85;
\* the baseline never decreases with age; 59, 60, 85, 86 give 3, 10, 50, 65.
C5_BaselineBands ==
  LET band(a) == CASE a < 60 -> 3
                   [] a \in 60..65 -> 10
                   [] a \in 66..70 -> 15
                   [] a \in 71..75 -> 25
                   [] a \in 76..80 -> 35
                   [] a \in 81..85 -> 50
                   [] a > 85 -> 65
  IN  /\ call.path \in VerdictPaths \cup {"notfound"} =>
           call.baselineRisk = Fin(band(call.patientAge.v), 100)
      /\ \A a \in (MinAge - 60)..(MaxAge + 1) :
           /\ getBaselineRisk(a) = band(a)
           /\ getBaselineRisk(a) <= getBaselineRisk(a + 1)
      /\ getBaselineRisk(59) = 3 /\ getBaselineRisk(60) = 10
      /\ getBaselineRisk(85) = 50 /\ getBaselineRisk(86) = 65

C5_Witness ==
  /\ call.path = "post"
  /\ call.patientAge.v = 60
  /\ call.baselineRisk = Fin(10, 100)

\* C6: the adjusted pre-test probability is the larger of the clinician's
\* probability and the baseline of the age: at least each, equal to one; it is
\* the probability compared with the threshold and passed to the update.
C6_AdjustedIsMax ==
  call.path \in VerdictPaths =>
    /\ ~ExtGT(call.risk, call.adjustedRisk)
    /\ ~ExtGT(call.baselineRisk, call.adjustedRisk)
    /\ call.adjustedRisk \in {call.risk, call.baselineRisk}
    /\ call.baselineRisk = Fin(getBaselineRisk(call.patientAge.v), 100)
    /\ call.path = "post" => call.preTestProb = call.adjustedRisk
    /\ FigureValue(LineOf(result.details, "Adjusted Pre-Test Probability")) =
         ExtMul(call.adjustedRisk, Hundred)

C6_Witness ==
  /\ call.path = "post"
  /\ ExtGT(call.risk, call.baselineRisk)
  /\ call.adjustedRisk = call.risk
  /\ call.risk = Fin(1, 2)

\* C7: the probability passed to calculatePostTestProbability is strictly
\* between 0 and 1 for every input that passes validation.
C7_PreTestProbInsideUnitInterval ==
  call.path = "post" =>
    /\ call.preTestProb.k = "fin"
    /\ 0 < call.preTestProb.n
    /\ call.preTestProb.n < call.preTestProb.d

\* C8: an error outcome carries no [RECOMMENDED] / [NOT RECOMMENDED] label and
\* is shown without the verdict sentence of a success outcome.
C8_ErrorIsNoVerdict ==
  (Rendered.shown /\ call.path \in ErrorPaths) =>
    /\ Rendered.recommendation.prefix \notin Labels
    /\ Rendered.sentence = NoSentence

\* C9 as stated: the gap shown equals the absolute difference of the two
\* post-test percentages shown.
C9_ShownGapIsDifferenceOfShown ==
  call.path = "post" =>
    FigureValue(LineOf(result.details, "Probability Gap")) =
      ExtAbs(ExtSub(FigureValue(LineOf(result.details, "If Positive")),
                    FigureValue(LineOf(result.details, "If Negative"))))

\* C9 amended: when the three figures shown are finite, the gap shown is the
\* unrounded absolute difference of the post-test probabilities rounded to the
\* nearest tenth of a point, and it is within 0.1 of the difference of the two
\* percentages shown.
C9_ShownGapWithinOneTenth ==
  LET pos == LineOf(result.details, "If Positive")
      neg == LineOf(result.details, "If Negative")
      gap == LineOf(result.details, "Probability Gap")
      exact == ExtAbs(ExtSub(call.positiveProb, call.negativeProb))
  IN  (call.path = "post" /\ pos.k = "fin" /\ neg.k = "fin" /\ gap.k = "fin") =>
        /\ Abs(gap.t - Abs(pos.t - neg.t)) <= 1
        /\ exact.k = "fin"
        /\ Abs(2 * gap.t * exact.d - 2000 * exact.n) <= exact.d

\* 0%, age 60-65, pTau 217: 50.8 and 4.9 are shown with a gap of 46.0
C9_Witness ==
  /\ call.path = "post"
  /\ call.test.name = PTau217
  /\ call.adjustedRisk = Fin(10, 100)
  /\ LineOf(result.details, "If Positive").t = 508
  /\ LineOf(result.details, "If Negative").t = 49
  /\ LineOf(result.details, "Probability Gap").t = 460

\* C10: whenever a labelled result is displayed by the variant whose verdict
\* sentence names a test, the test named in the sentence is the test of the label.
C10_SentenceNamesResultTest ==
  (variant = "str" /\ Rendered.shown /\ Rendered.recommendation.prefix \in Labels) =>
    Rendered.sentence.subject = Rendered.recommendation.body

====
